---- MODULE Spec2Model ----
(***************************************************************************)
(* A model of draw_logic_solver.py: the nonogram solver that turns the     *)
(* hints of every row and column into z3 assertions (DrawLogic._add_column)*)
(* and asks a z3 Solver for a model (DrawLogic._solve).                    *)
(*                                                                         *)
(* Python lists are modelled as sequences; a Python index i is the         *)
(* sequence index i + 1.  The z3 array self._field is modelled by the set  *)
(* of the indices at which it is true.  z3 integer constants are modelled  *)
(* by their names: z3.Int(name) called twice with one name is one          *)
(* constant.                                                               *)
(***************************************************************************)
EXTENDS Integers, Sequences, FiniteSets, TLC

VARIABLES
    stdin,       \* the text main() reads: a sequence of lines, a line a sequence of characters
    pc,          \* "main": before read_input; "ready": a DrawLogic exists;
                 \* "failed": read_input raised; "line" / "encoded": one _add_column call
    horizontal,  \* self._horizontal_hints
    vertical,    \* self._vertical_hints
    solved,      \* self._solved
    answer,      \* self._answer
    solver,      \* the assertions added to self._solver, in order
    checks,      \* how many times self._solver.check() was called
    fout,        \* the strings written to fout, one per write call
    ret,         \* <<>> or <<the value the latest solve() returned>>
    first,       \* <<>> or <<the value the first returning solve() returned>>
    raised,      \* the exception the latest call ended with, or "none"
    aborted,     \* "no", or where the first _solve raised: "build" / "check"
    prints,      \* how many print_answer calls were made
    line         \* the arguments of the _add_column call under study, and a candidate array

vars == <<stdin, pc, horizontal, vertical, solved, answer, solver, checks,
          fout, ret, first, raised, aborted, prints, line>>

(***************************************************************************)
(* Bounds of the model.                                                    *)
(***************************************************************************)
MaxWidth == 3       \* widest grid the puzzles of Spec are derived from
MaxHeight == 2      \* tallest grid the puzzles of Spec are derived from
MaxCells == 6       \* most cells of a grid the puzzles of Spec are derived from
MaxPrints == 2      \* print_answer calls followed on one instance
MaxLines == 3       \* most hint lines the header of an input of SpecMain asks for
MaxSize == 4        \* longest line of SpecLine
MaxHint == 3        \* largest hint of SpecLine
MaxHints == 2       \* most hints in a line of SpecLine
WideWidth == 21     \* width of the wide puzzles of SpecWide
WideHeight == 12    \* height of the wide puzzles of SpecWide

Max(a, b) == IF a >= b THEN a ELSE b

(***************************************************************************)
(* Python values.                                                          *)
(***************************************************************************)
None == [some |-> FALSE, f0 |-> <<>>]
Some(g) == [some |-> TRUE, f0 |-> g]

\* '%d' % n for n >= 0
Digit(d) == <<"0", "1", "2", "3", "4", "5", "6", "7", "8", "9">>[d + 1]

RECURSIVE Decimal(_)
Decimal(n) == IF n < 10 THEN Digit(n) ELSE Decimal(n \div 10) \o Digit(n % 10)

\* 'h%d' % i and 'v%d' % i
HPrefix(i) == "h" \o Decimal(i)
VPrefix(i) == "v" \o Decimal(i)

\* z3.Int('%s%d' % (prefix, i)): the offset variable of hint i
OffsetVar(prefix, i) == prefix \o Decimal(i)

\* the bound variables of the three kinds of ForAll
FaFirstVar(prefix) == prefix \o "__1"
FaVar(prefix, i) == prefix \o "_" \o Decimal(i)

(***************************************************************************)
(* The assertions _add_column adds.  x, y are names of integer constants,  *)
(* n a hint, i a loop index, fa the name of a bound variable.              *)
(*   Not     : Not(field[base + skip * i])                                 *)
(*   Ge0     : x >= 0                                                      *)
(*   Lt      : x + n < y                                                   *)
(*   LeSize  : x + n <= size                                               *)
(*   Cell    : field[base + (x + i) * skip]                                *)
(*   FaFirst : ForAll fa. fa < 0 \/ x <= fa \/ ~field[base + skip * fa]    *)
(*   FaMid   : ForAll fa. fa < x + n \/ y <= fa \/ ~field[base + skip*fa]  *)
(*   FaLast  : ForAll fa. fa < x + n \/ size <= fa \/ ~field[base+skip*fa] *)
(***************************************************************************)
Assertion(op, x, n, y, i, skip, base, size, fa) ==
    [op |-> op, x |-> x, n |-> n, y |-> y, i |-> i,
     skip |-> skip, base |-> base, size |-> size, fa |-> fa]

RECURSIVE Concat(_)
Concat(ss) == IF ss = <<>> THEN <<>> ELSE Head(ss) \o Concat(Tail(ss))

\* z3.Not(self._field[base + skip * i])
NotCell(skip, base, size, i) ==
    Assertion("Not", "", 0, "", i, skip, base, size, "")

\* v[0] >= 0
Ge0(skip, base, size, x) ==
    Assertion("Ge0", x, 0, "", 0, skip, base, size, "")

LtNextNoGap(skip, base, size, x, n, y) ==
    Assertion("Lt", x, n - 1, y, 0, skip, base, size, "")

\* v[i] + numbers[i] < v[i + 1]
LtNext(skip, base, size, x, n, y) ==
    Assertion("Lt", x, n, y, 0, skip, base, size, "")

\* v[-1] + numbers[-1] <= size
LeSize(skip, base, size, x, n) ==
    Assertion("LeSize", x, n, "", 0, skip, base, size, "")

\* self._field[base + (s + i) * skip]
Cell(skip, base, size, x, i) ==
    Assertion("Cell", x, 0, "", i, skip, base, size, "")

FaFirst(skip, base, size, x, fa) ==
    Assertion("FaFirst", x, 0, "", 0, skip, base, size, fa)

FaMid(skip, base, size, x, n, y, fa) ==
    Assertion("FaMid", x, n, y, 0, skip, base, size, fa)

FaLast(skip, base, size, x, n, fa) ==
    Assertion("FaLast", x, n, "", 0, skip, base, size, fa)

EmptyLineShort(skip, base, size) ==
    [i \in 1..(size - 1) |-> NotCell(skip, base, size, i - 1)]

\* numbers == []: for i in xrange(size): add(Not(field[base + skip * i]))
EmptyLine(skip, base, size) ==
    [i \in 1..size |-> NotCell(skip, base, size, i - 1)]

AddColumn(numbers, skip, base, size, prefix) ==
    IF numbers = <<>>
    THEN EmptyLine(skip, base, size)
    ELSE LET len == Len(numbers)
             v(i) == OffsetVar(prefix, i)
         IN  <<Ge0(skip, base, size, v(0))>>
             \o [i \in 1..(len - 1) |->
                   LtNext(skip, base, size, v(i - 1), numbers[i], v(i))]
             \o <<LeSize(skip, base, size, v(len - 1), numbers[len])>>
             \o Concat([k \in 1..len |->
                   [i \in 1..numbers[k] |-> Cell(skip, base, size, v(k - 1), i - 1)]])
             \o <<FaFirst(skip, base, size, v(0), FaFirstVar(prefix))>>
             \o [i \in 1..(len - 1) |->
                   FaMid(skip, base, size, v(i - 1), numbers[i], v(i),
                         FaVar(prefix, i - 1))]
             \o <<FaLast(skip, base, size, v(len - 1), numbers[len],
                         FaVar(prefix, len))>>

BuildStoreRowsOnly(hh, vv) ==
    LET width == Len(vv)
        height == Len(hh)
    IN  Concat([i \in 1..height |->
                   AddColumn(hh[i], 1, (i - 1) * width, width, HPrefix(i - 1))])

\* the assertions _solve adds before it calls check()
BuildStore(hh, vv) ==
    LET width == Len(vv)
        height == Len(hh)
    IN  Concat([i \in 1..height |->
                   AddColumn(hh[i], 1, (i - 1) * width, width, HPrefix(i - 1))])
        \o Concat([i \in 1..width |->
                   AddColumn(vv[i], width, i - 1, height, VPrefix(i - 1))])

(***************************************************************************)
(* z3: what an assertion says of an array f (the set of indices where it   *)
(* is true) and a valuation val of the integer constants.  Every integer   *)
(* constant x of a store occurs in Ge0, Lt and LeSize assertions that put  *)
(* it in 0..size, so the integers range over IntDom, which holds one value *)
(* below and one above; a quantified fa outside IntDom falsifies no body.  *)
(***************************************************************************)
SetMax(S) == CHOOSE m \in S : \A n \in S : n <= m

MaxSizeOf(store) == SetMax({0} \cup {store[k].size : k \in 1..Len(store)})

IntDom(store) == (-1)..(MaxSizeOf(store) + 1)

IntVars(a) ==
    CASE a.op = "Not" -> {}
      [] a.op \in {"Lt", "FaMid"} -> {a.x, a.y}
      [] OTHER -> {a.x}

\* the fa at which the body of a ForAll is not true by its guards alone
Region(a, val, D) ==
    CASE a.op = "FaFirst" -> {fa \in D : ~(fa < 0 \/ val[a.x] <= fa)}
      [] a.op = "FaMid" -> {fa \in D : ~(fa < val[a.x] + a.n \/ val[a.y] <= fa)}
      [] a.op = "FaLast" -> {fa \in D : ~(fa < val[a.x] + a.n \/ a.size <= fa)}

Holds(a, f, val, D) ==
    CASE a.op = "Not" -> (a.base + a.skip * a.i) \notin f
      [] a.op = "Ge0" -> val[a.x] >= 0
      [] a.op = "Lt" -> val[a.x] + a.n < val[a.y]
      [] a.op = "LeSize" -> val[a.x] + a.n <= a.size
      [] a.op = "Cell" -> (a.base + (val[a.x] + a.i) * a.skip) \in f
      [] OTHER -> \A fa \in Region(a, val, D) : (a.base + a.skip * fa) \notin f

VarsOf(store) == UNION {IntVars(store[k]) : k \in 1..Len(store)}

\* the array f satisfies every assertion of the store for some valuation
Satisfies(f, store) ==
    \E val \in [VarsOf(store) -> IntDom(store)] :
        \A k \in 1..Len(store) : Holds(store[k], f, val, IntDom(store))

(***************************************************************************)
(* z3's search, as the set of the partial models of a store: the models of *)
(* its first assertion, each extended by those of the second, and so on.   *)
(* A partial model gives the integer constants met so far a value and      *)
(* holds the indices the assertions force true (T) and false (F).          *)
(*                                                                         *)
(* An integer constant is only tried at the values its Ge0, Lt and LeSize  *)
(* assertions leave it: Narrow drops a value of x that no value of the     *)
(* other constant of the assertion supports, which loses no model.         *)
(***************************************************************************)
Narrow(dom, a) ==
    CASE a.op = "Ge0" -> [dom EXCEPT ![a.x] = {d \in @ : d >= 0}]
      [] a.op = "LeSize" -> [dom EXCEPT ![a.x] = {d \in @ : d + a.n <= a.size}]
      [] a.op = "Lt" ->
           LET dx == {d \in dom[a.x] : \E e \in dom[a.y] : d + a.n < e}
               dy == {e \in dom[a.y] : \E d \in dom[a.x] : d + a.n < e}
           IN  IF a.x = a.y THEN dom
               ELSE [dom EXCEPT ![a.x] = dx, ![a.y] = dy]
      [] OTHER -> dom

\* Narrow by the assertions lo..hi of the store, in order
RECURSIVE NarrowAll(_, _, _, _)
NarrowAll(dom, store, lo, hi) ==
    IF lo > hi \/ DOMAIN dom = {} THEN dom
    ELSE IF lo = hi THEN Narrow(dom, store[lo])
    ELSE LET mid == (lo + hi) \div 2
             left == NarrowAll(dom, store, lo, mid)
         IN  NarrowAll(left, store, mid + 1, hi)

RECURSIVE NarrowFix(_, _)
NarrowFix(dom, store) ==
    LET next == NarrowAll(dom, store, 1, Len(store))
    IN  IF next = dom THEN dom ELSE NarrowFix(next, store)

Domains(store) ==
    NarrowFix([x \in VarsOf(store) |-> IntDom(store)], store)

EmptyModel == [val |-> <<>>, T |-> {}, F |-> {}]

\* each model of ms, with the integer constant x given a value when it has none
Extend(ms, x, dom) ==
    UNION {IF x \in DOMAIN m.val
           THEN {m}
           ELSE {[m EXCEPT !.val = (x :> d) @@ m.val] : d \in dom[x]} : m \in ms}

ForceTrue(m, idx) ==
    IF idx \in m.F THEN {} ELSE {[m EXCEPT !.T = @ \cup {idx}]}

ForceFalse(m, idxs) ==
    IF idxs \cap m.T # {} THEN {} ELSE {[m EXCEPT !.F = @ \cup idxs]}

Step(ms, a, D, dom) ==
    CASE a.op = "Not" ->
           UNION {ForceFalse(m, {a.base + a.skip * a.i}) : m \in ms}
      [] a.op = "Ge0" ->
           {m \in Extend(ms, a.x, dom) : m.val[a.x] >= 0}
      [] a.op = "Lt" ->
           {m \in Extend(Extend(ms, a.x, dom), a.y, dom) :
              m.val[a.x] + a.n < m.val[a.y]}
      [] a.op = "LeSize" ->
           {m \in Extend(ms, a.x, dom) : m.val[a.x] + a.n <= a.size}
      [] a.op = "Cell" ->
           UNION {ForceTrue(m, a.base + (m.val[a.x] + a.i) * a.skip) :
                    m \in Extend(ms, a.x, dom)}
      [] a.op = "FaFirst" ->
           UNION {ForceFalse(m, {a.base + a.skip * fa : fa \in Region(a, m.val, D)}) :
                    m \in Extend(ms, a.x, dom)}
      [] a.op = "FaMid" ->
           UNION {ForceFalse(m, {a.base + a.skip * fa : fa \in Region(a, m.val, D)}) :
                    m \in Extend(Extend(ms, a.x, dom), a.y, dom)}
      [] a.op = "FaLast" ->
           UNION {ForceFalse(m, {a.base + a.skip * fa : fa \in Region(a, m.val, D)}) :
                    m \in Extend(ms, a.x, dom)}

\* the assertions lo..hi of the store, taken in order
RECURSIVE Propagate(_, _, _, _, _, _)
Propagate(ms, store, lo, hi, D, dom) ==
    IF lo > hi \/ ms = {} THEN ms
    ELSE IF lo = hi THEN Step(ms, store[lo], D, dom)
    ELSE LET mid == (lo + hi) \div 2
             left == Propagate(ms, store, lo, mid, D, dom)
         IN  Propagate(left, store, mid + 1, hi, D, dom)

Models(store) ==
    Propagate({EmptyModel}, store, 1, Len(store), IntDom(store), Domains(store))

\* str(self._solver.check()), given the models of the store
Check(ms) == IF ms = {} THEN "unsat" ELSE "sat"

\* f0 of _solve: f0[i][j] = str(m.eval(self._field[j * width + i])) == 'True'
F0(m, width, height) ==
    [i \in 1..width |-> [j \in 1..height |-> ((j - 1) * width + (i - 1)) \in m.T]]

\* the values _solve can return: the solver hands back any one of its models
SolveResults(hh, vv) ==
    LET store == BuildStore(hh, vv)
        ms == Models(store)
    IN  IF Check(ms) # "sat" THEN {None}
        ELSE {Some(F0(m, Len(vv), Len(hh))) : m \in ms}

\* what print_answer writes for q, and the exception it ends with
Rendered(q) ==
    LET w == Len(q.f0)
        h == Len(q.f0[1])
    IN  [k \in 1..(h * (w + 1)) |->
            LET j == (k - 1) \div (w + 1)
                i == (k - 1) % (w + 1)
            IN  IF i = w THEN "\n"
                ELSE IF q.f0[i + 1][j + 1] THEN "x" ELSE "_"]

PrintRaises(q) == IF q.some /\ Len(q.f0) = 0 THEN "IndexError" ELSE "none"

PrintWritesSilent(q) ==
    IF ~q.some THEN <<>>
    ELSE IF Len(q.f0) = 0 THEN <<>>
    ELSE Rendered(q)

PrintWrites(q) ==
    IF ~q.some THEN <<"No solutions!\n">>
    ELSE IF Len(q.f0) = 0 THEN <<>>
    ELSE Rendered(q)

(***************************************************************************)
(* Reference notions the claims are stated with: the run lengths of a line *)
(* of booleans, and the hints of a grid g (g[i][j] is column i, row j, as  *)
(* in the answer of solve()).                                              *)
(***************************************************************************)
RECURSIVE RunsFrom(_, _, _)
RunsFrom(bs, k, cur) ==
    IF k > Len(bs) THEN (IF cur > 0 THEN <<cur>> ELSE <<>>)
    ELSE IF bs[k] THEN RunsFrom(bs, k + 1, cur + 1)
    ELSE (IF cur > 0 THEN <<cur>> ELSE <<>>) \o RunsFrom(bs, k + 1, 0)

Runs(bs) == RunsFrom(bs, 1, 0)

RowHints(g, w, h) == [j \in 1..h |-> Runs([i \in 1..w |-> g[i][j]])]
ColHints(g, w, h) == [i \in 1..w |-> Runs(g[i])]

Grids(w, h) == [1..w -> [1..h -> BOOLEAN]]

\* the hints of every line pattern of length n
LineHints(n) == {Runs(bs) : bs \in [1..n -> BOOLEAN]}

(***************************************************************************)
(* The puzzles of Spec: the hints of every grid up to MaxWidth x MaxHeight *)
(* of at most MaxCells cells,                                              *)
(* the same with the hints of the first row or of the first column         *)
(* replaced by those of any line one cell longer, and the two scenarios of *)
(* the documentation.                                                      *)
(***************************************************************************)
Puzzle(hh, vv) == [h |-> hh, v |-> vv]

GridPuzzles(W, H) ==
    UNION {{Puzzle(RowHints(g, w, h), ColHints(g, w, h)) : g \in Grids(w, h)} :
             <<w, h>> \in {d \in (0..W) \X (0..H) : d[1] * d[2] <= MaxCells}}

Replaced(p) ==
    {p}
    \cup (IF Len(p.h) = 0 THEN {}
          ELSE {[p EXCEPT !.h[1] = hl] : hl \in LineHints(Len(p.v) + 1)})
    \cup (IF Len(p.v) = 0 THEN {}
          ELSE {[p EXCEPT !.v[1] = hl] : hl \in LineHints(Len(p.h) + 1)})

\* the usage example of the module docstring
DocPuzzle ==
    Puzzle(<<<<3>>, <<1, 1>>, <<3>>>>,
           <<<<1>>, <<1, 1>>, <<1, 1>>, <<1, 1>>, <<1>>>>)

\* the concrete scenario of the specification, its fourth column written [] or [0]
ScenarioPuzzles ==
    {Puzzle(<<<<3>>, <<1, 1>>, <<1>>>>,
            <<<<1, 1>>, <<1, 1>>, <<1, 1>>, c4, <<1>>>>) : c4 \in {<<>>, <<0>>}}

Puzzles ==
    UNION {Replaced(p) : p \in GridPuzzles(MaxWidth, MaxHeight)}
    \cup {DocPuzzle} \cup ScenarioPuzzles

(***************************************************************************)
(* The puzzles of SpecWide: the hints of the WideWidth x WideHeight grids  *)
(* whose row 1 is filled at every even column, whose last row is filled at *)
(* one column c, and whose row 5 is empty or filled at column 0.           *)
(***************************************************************************)
WideGrids ==
    {[i \in 1..WideWidth |-> [j \in 1..WideHeight |->
         \/ j = 2 /\ i % 2 = 1
         \/ j = WideHeight /\ i = c
         \/ j = 6 /\ i = 1 /\ d] ] :
       <<c, d>> \in (1..WideWidth) \X BOOLEAN}

WidePuzzles ==
    {Puzzle(RowHints(g, WideWidth, WideHeight), ColHints(g, WideWidth, WideHeight)) :
       g \in WideGrids}

(***************************************************************************)
(* DrawLogic.__init__, solve, print_answer.                                *)
(***************************************************************************)
Constructed(hh, vv) ==
    /\ pc = "ready"
    /\ horizontal = hh
    /\ vertical = vv
    /\ solved = FALSE
    /\ answer = None
    /\ solver = <<>>
    /\ checks = 0
    /\ fout = <<>>
    /\ ret = <<>>
    /\ first = <<>>
    /\ raised = "none"
    /\ aborted = "no"
    /\ prints = 0
    /\ line = <<>>

\* the values solve() can return in the current state
SolveReturns == IF solved THEN {answer} ELSE SolveResults(horizontal, vertical)

SolveToForgetFlag(q) ==
    /\ IF ~solved
       THEN /\ solved' = FALSE
            /\ solver' = BuildStore(horizontal, vertical)
            /\ checks' = checks + 1
            /\ answer' = q
       ELSE UNCHANGED <<solved, solver, checks, answer>>
    /\ ret' = <<q>>
    /\ first' = IF first = <<>> THEN <<q>> ELSE first

\* solve() returning q
SolveTo(q) ==
    /\ IF ~solved
       THEN /\ solved' = TRUE
            /\ solver' = BuildStore(horizontal, vertical)
            /\ checks' = checks + 1
            /\ answer' = q
       ELSE UNCHANGED <<solved, solver, checks, answer>>
    /\ ret' = <<q>>
    /\ first' = IF first = <<>> THEN <<q>> ELSE first

Solve ==
    /\ pc = "ready"
    /\ \E q \in SolveReturns : SolveTo(q)
    /\ raised' = "none"
    /\ UNCHANGED <<stdin, pc, horizontal, vertical, fout, aborted, prints, line>>

PrintAnswer ==
    /\ pc = "ready"
    /\ prints < MaxPrints
    /\ \E q \in SolveReturns :
          /\ SolveTo(q)
          /\ fout' = fout \o PrintWrites(q)
          /\ raised' = PrintRaises(q)
    /\ prints' = prints + 1
    /\ UNCHANGED <<stdin, pc, horizontal, vertical, aborted, line>>

Init == \E p \in Puzzles : stdin = <<>> /\ Constructed(p.h, p.v)

Next == Solve \/ PrintAnswer

Spec == Init /\ [][Next]_vars

InitWide == \E p \in WidePuzzles : stdin = <<>> /\ Constructed(p.h, p.v)

SpecWide == InitWide /\ [][Next]_vars

(***************************************************************************)
(* A first _solve that raises (while the assertions are built, or in the   *)
(* solver): solve(), called directly or by print_answer, has set _solved   *)
(* and the exception leaves it before _answer is assigned.  Nothing reads  *)
(* self._solver afterwards.                                                *)
(***************************************************************************)
SolveAbortRetry ==
    /\ pc = "ready"
    /\ ~solved
    /\ \E where \in {"build", "check"} :
          /\ aborted' = where
          /\ checks' = IF where = "check" THEN checks + 1 ELSE checks
          /\ solver' = IF where = "check" THEN BuildStore(horizontal, vertical)
                       ELSE <<>>
    /\ solved' = FALSE
    /\ raised' = "Exception"
    /\ UNCHANGED <<stdin, pc, horizontal, vertical, answer, fout, ret, first,
                   prints, line>>

SolveAbort ==
    /\ pc = "ready"
    /\ ~solved
    /\ \E where \in {"build", "check"} :
          /\ aborted' = where
          /\ checks' = IF where = "check" THEN checks + 1 ELSE checks
          /\ solver' = IF where = "check" THEN BuildStore(horizontal, vertical)
                       ELSE <<>>
    /\ solved' = TRUE
    /\ raised' = "Exception"
    /\ UNCHANGED <<stdin, pc, horizontal, vertical, answer, fout, ret, first,
                   prints, line>>

NextErr == Solve \/ PrintAnswer \/ SolveAbort

SpecErr == Init /\ [][NextErr]_vars

(***************************************************************************)
(* read_input and main.  A line is a sequence of characters; str.split()   *)
(* cuts it at runs of blanks; int() accepts a token of decimal digits (the *)
(* inputs of the model hold no sign) and raises ValueError on another.     *)
(***************************************************************************)
Digits == {Digit(d) : d \in 0..9}

DigitVal(c) == CHOOSE d \in 0..9 : Digit(d) = c

RECURSIVE SplitFrom(_, _, _)
SplitFrom(cs, k, cur) ==
    IF k > Len(cs) THEN (IF cur = <<>> THEN <<>> ELSE <<cur>>)
    ELSE IF cs[k] = " "
    THEN (IF cur = <<>> THEN <<>> ELSE <<cur>>) \o SplitFrom(cs, k + 1, <<>>)
    ELSE SplitFrom(cs, k + 1, Append(cur, cs[k]))

Split(cs) == SplitFrom(cs, 1, <<>>)

IsInt(tok) == tok # <<>> /\ \A k \in 1..Len(tok) : tok[k] \in Digits

RECURSIVE IntOf(_)
IntOf(tok) ==
    IF Len(tok) = 1 THEN DigitVal(tok[1])
    ELSE 10 * IntOf(SubSeq(tok, 1, Len(tok) - 1)) + DigitVal(tok[Len(tok)])

\* fin.readline(), for the k-th call: '' at the end of the input
ReadLine(text, k) == IF k <= Len(text) THEN text[k] ELSE <<>>

HintsOfDropLast(cs) ==
    [k \in 1..(Len(Split(cs)) - 1) |-> IntOf(Split(cs)[k])]

\* [int(hint) for hint in fin.readline().split()]
HintsOf(cs) == [k \in 1..Len(Split(cs)) |-> IntOf(Split(cs)[k])]

ReadInput(text) ==
    LET head == Split(ReadLine(text, 1))
    IN  IF head = <<>> THEN [raised |-> "IndexError", h |-> <<>>, v |-> <<>>]
        ELSE IF ~IsInt(head[1]) THEN [raised |-> "ValueError", h |-> <<>>, v |-> <<>>]
        ELSE IF Len(head) < 2 THEN [raised |-> "IndexError", h |-> <<>>, v |-> <<>>]
        ELSE IF ~IsInt(head[2]) THEN [raised |-> "ValueError", h |-> <<>>, v |-> <<>>]
        ELSE LET width == IntOf(head[1])
                 height == IntOf(head[2])
                 bad == \E k \in 2..(1 + height + width) :
                           \E t \in 1..Len(Split(ReadLine(text, k))) :
                              ~IsInt(Split(ReadLine(text, k))[t])
             IN  IF bad THEN [raised |-> "ValueError", h |-> <<>>, v |-> <<>>]
                 ELSE [raised |-> "none",
                       h |-> [j \in 1..height |-> HintsOf(ReadLine(text, 1 + j))],
                       v |-> [i \in 1..width |->
                                HintsOf(ReadLine(text, 1 + height + i))]]

\* main(): read_input, DrawLogic(horizontal, vertical), print_answer(sys.stdout)
Main ==
    /\ pc = "main"
    /\ LET r == ReadInput(stdin)
       IN  IF r.raised # "none"
           THEN /\ pc' = "failed"
                /\ raised' = r.raised
                /\ UNCHANGED <<horizontal, vertical, solved, answer, solver, checks,
                               fout, ret, first, prints>>
           ELSE \E q \in SolveResults(r.h, r.v) :
                   /\ pc' = "done"
                   /\ horizontal' = r.h
                   /\ vertical' = r.v
                   /\ solved' = TRUE
                   /\ solver' = BuildStore(r.h, r.v)
                   /\ checks' = 1
                   /\ answer' = q
                   /\ ret' = <<q>>
                   /\ first' = <<q>>
                   /\ fout' = PrintWrites(q)
                   /\ raised' = PrintRaises(q)
                   /\ prints' = 1
    /\ UNCHANGED <<stdin, aborted, line>>

\* the input of the usage example of the module docstring
DocInput ==
    << <<"5", " ", "3">>,
       <<"3">>, <<"1", " ", "1">>, <<"3">>,
       <<"1">>, <<"1", " ", "1">>, <<"1", " ", "1">>, <<"1", " ", "1">>, <<"1">>,
       <<>> >>

InputLines ==
    {<<>>, <<"1">>, <<"2">>, <<"1", " ", "1">>, <<" ", "1", " ", " ", "1", " ">>,
     <<"1", "a">>}

\* a header asking for at most MaxLines hint lines, followed by that many
\* lines or by one line less; a header that is blank or is no pair of numbers
Inputs ==
    UNION {{<<<<Digit(d[1]), " ", Digit(d[2])>>>> \o body :
              body \in [1..(d[1] + d[2]) -> InputLines]
                       \cup [1..(d[1] + d[2] - 1) -> InputLines]} :
             d \in {e \in (0..MaxLines) \X (0..MaxLines) : e[1] + e[2] <= MaxLines}}
    \cup {<<<<>>>>, <<<<"2">>>>, <<<<"a", " ", "1">>>>, <<<<"1", " ", "a">>>>, DocInput}

InitMain ==
    /\ stdin \in Inputs
    /\ pc = "main"
    /\ horizontal = <<>>
    /\ vertical = <<>>
    /\ solved = FALSE
    /\ answer = None
    /\ solver = <<>>
    /\ checks = 0
    /\ fout = <<>>
    /\ ret = <<>>
    /\ first = <<>>
    /\ raised = "none"
    /\ aborted = "no"
    /\ prints = 0
    /\ line = <<>>

NextMain == Main

SpecMain == InitMain /\ [][NextMain]_vars

(***************************************************************************)
(* One _add_column call on a fresh solver, with a candidate array that is  *)
(* false outside the line.                                                 *)
(***************************************************************************)
RECURSIVE SeqsUpTo(_, _)
SeqsUpTo(S, n) ==
    IF n = 0 THEN {<<>>}
    ELSE SeqsUpTo(S, n - 1) \cup [1..n -> S]

LineCells(skip, base, size) == {base + skip * i : i \in 0..(size - 1)}

LineInputs ==
    UNION {[numbers : SeqsUpTo(1..MaxHint, MaxHints),
            skip : {g[1]}, base : {g[2]}, size : {g[3]}, prefix : {"h0"},
            f : SUBSET LineCells(g[1], g[2], g[3])] :
             g \in {1, 3} \X {0, 2} \X (0..MaxSize)}

InitLine ==
    /\ line \in LineInputs
    /\ pc = "line"
    /\ stdin = <<>>
    /\ horizontal = <<>>
    /\ vertical = <<>>
    /\ solved = FALSE
    /\ answer = None
    /\ solver = <<>>
    /\ checks = 0
    /\ fout = <<>>
    /\ ret = <<>>
    /\ first = <<>>
    /\ raised = "none"
    /\ aborted = "no"
    /\ prints = 0

AddColumnCall ==
    /\ pc = "line"
    /\ solver' = solver \o AddColumn(line.numbers, line.skip, line.base, line.size,
                                     line.prefix)
    /\ pc' = "encoded"
    /\ UNCHANGED <<stdin, horizontal, vertical, solved, answer, checks, fout, ret,
                   first, raised, aborted, prints, line>>

NextLine == AddColumnCall

SpecLine == InitLine /\ [][NextLine]_vars

\* the cells of the line, as booleans in line order
LineBits == [i \in 1..line.size |-> (line.base + line.skip * (i - 1)) \in line.f]

(***************************************************************************)
(* The claims.                                                             *)
(***************************************************************************)
width == Len(vertical)
height == Len(horizontal)

\* some boolean grid has the row hints hh and the column hints vv
RECURSIVE Product(_)
Product(sets) ==
    IF sets = <<>> THEN {<<>>}
    ELSE {<<x>> \o rest : x \in Head(sets), rest \in Product(Tail(sets))}

LinePatterns(n, hint) == {bs \in [1..n -> BOOLEAN] : Runs(bs) = hint}

HasSolution(hh, vv) ==
    \E g \in Product([i \in 1..Len(vv) |-> LinePatterns(Len(hh), vv[i])]) :
        RowHints(g, Len(vv), Len(hh)) = hh

NoSolutionLines(n) == [k \in 1..n |-> "No solutions!\n"]

\* what `times` calls of print_answer must write for the grid g: height lines of
\* width characters and a newline, 'x' where g is filled
Expected(g, w, h, times) ==
    [k \in 1..(times * h * (w + 1)) |->
        LET r == (k - 1) % (h * (w + 1))
            j == r \div (w + 1)
            i == r % (w + 1)
        IN  IF i = w THEN "\n" ELSE IF g[i + 1][j + 1] THEN "x" ELSE "_"]

\* C1: after _add_column(numbers, skip, base, size, prefix) on a fresh solver, an
\* assignment to the cells of the line satisfies the assertions, for some value of
\* the offset variables, exactly when the runs of filled cells of the line, read in
\* order, have the lengths numbers.
C1_LineEncoding ==
    pc = "encoded" =>
        (Satisfies(line.f, solver) <=> Runs(LineBits) = line.numbers)

C1_Witness ==
    /\ pc = "encoded"
    /\ Len(line.numbers) = 2
    /\ line.skip = 3
    /\ line.size > line.numbers[1] + line.numbers[2] + 1
    /\ Satisfies(line.f, solver)

\* The models the search builds are the arrays that satisfy the store.
ModelsAgree ==
    pc = "encoded" =>
        (Satisfies(line.f, solver) <=>
            \E m \in Models(solver) : m.T \subseteq line.f /\ m.F \cap line.f = {})

\* C2: solve() on the hints of a grid returns a grid, never None, whose row hints
\* and column hints are those it was given.
C2_RoundTrip ==
    (pc = "ready" /\ solved) =>
        /\ answer.some
        /\ RowHints(answer.f0, width, height) = horizontal
        /\ ColHints(answer.f0, width, height) = vertical

\* C3: once any call was made the solver was invoked exactly once, every solve()
\* returned what the first one returned, which is the cached answer; and a solved
\* instance stays solved, with the same answer and no further solver call.
C3_SolveOnce ==
    /\ [](ret # <<>> => (solved /\ checks = 1 /\ ret = first /\ ret = <<answer>>))
    /\ [][solved => (solved' /\ answer' = answer /\ checks' = checks)]_vars

C3_Witness ==
    /\ prints = MaxPrints
    /\ checks = 1
    /\ answer.some
    /\ ret = first

\* C4: when no grid satisfies the hints, solve() returns None and every
\* print_answer writes the one line "No solutions!" and nothing else.
C4_Unsatisfiable ==
    (pc = "ready" /\ solved /\ ~HasSolution(horizontal, vertical)) =>
        /\ answer = None
        /\ ret = <<None>>
        /\ raised = "none"
        /\ fout = NoSolutionLines(prints)

C4_Witness ==
    /\ horizontal = <<<<1>>>>
    /\ vertical = <<<<>>>>
    /\ prints = 1
    /\ fout = <<"No solutions!\n">>

\* C5: for a satisfiable puzzle every print_answer writes height lines of width
\* characters and a newline, character i of line j being 'x' exactly when the
\* solved cell of column i, row j is filled.
C5_Rendering ==
    (pc = "ready" /\ prints >= 1 /\ HasSolution(horizontal, vertical)) =>
        /\ answer.some
        /\ fout = Expected(answer.f0, width, height, prints)

\* C6 as stated: the scenario of the specification prints _xxx_, x___x, _xxx_.
C6_ScenarioGrid ==
    (pc = "ready" /\ prints = 1 /\ Puzzle(horizontal, vertical) \in ScenarioPuzzles) =>
        fout = <<"_", "x", "x", "x", "_", "\n",
                 "x", "_", "_", "_", "x", "\n",
                 "_", "x", "x", "x", "_", "\n">>

\* C6, amended: the scenario of the specification, its fourth column written []
\* or [0], has no solution: solve() returns None and print_answer writes the one
\* line "No solutions!".
C6_ScenarioNoSolution ==
    (pc = "ready" /\ solved /\ Puzzle(horizontal, vertical) \in ScenarioPuzzles) =>
        /\ answer = None
        /\ fout = NoSolutionLines(prints)

C6_Witness ==
    /\ Puzzle(horizontal, vertical) \in ScenarioPuzzles
    /\ vertical[4] = <<0>>
    /\ prints = 1
    /\ fout = <<"No solutions!\n">>

\* C7: main() on the input of the docstring's usage example writes the three lines
\* _xxx_, x___x, _xxx_, whatever model the solver returns.
C7_DocExample ==
    (pc # "main" /\ stdin = DocInput) =>
        /\ pc = "done"
        /\ raised = "none"
        /\ fout = <<"_", "x", "x", "x", "_", "\n",
                    "x", "_", "_", "_", "x", "\n",
                    "_", "x", "x", "x", "_", "\n">>

C7_Witness ==
    /\ pc = "done"
    /\ stdin = DocInput
    /\ horizontal = DocPuzzle.h
    /\ vertical = DocPuzzle.v
    /\ Len(fout) = 18

\* the hint entries of the puzzle, as (kind of line, line index, hint index), and
\* the name _add_column gives the offset variable of an entry
HintEntries ==
    {e \in {"h"} \X (0..(height - 1)) \X (0..width) :
        e[3] < Len(horizontal[e[2] + 1])}
    \cup {e \in {"v"} \X (0..(width - 1)) \X (0..height) :
            e[3] < Len(vertical[e[2] + 1])}

NameOf(e) ==
    OffsetVar(IF e[1] = "h" THEN HPrefix(e[2]) ELSE VPrefix(e[2]), e[3])

\* C8: within one _solve, the offset variables of two different hint entries
\* (line, hint index) have different names.
C8_FreshOffsetVars ==
    (pc = "ready" /\ solved) =>
        \A e1, e2 \in HintEntries : e1 # e2 => NameOf(e1) # NameOf(e2)

\* the assertions negate each of the size cells of the line and say nothing else
EmptyLineOnly(as, skip, base, size) ==
    /\ Len(as) = size
    /\ \A k \in 1..Len(as) : as[k].op = "Not"
    /\ {as[k].base + as[k].skip * as[k].i : k \in 1..Len(as)}
         = LineCells(skip, base, size)
    /\ VarsOf(as) = {}

\* C9: for a line with no hints _add_column adds one negated cell for each of the
\* size cells of the line and nothing else (no offset variable, no quantifier, no
\* cell outside the line), and a printed solution shows the line as '_' only.
C9_EmptyLine ==
    pc = "ready" =>
        /\ \A j \in 1..height :
              horizontal[j] = <<>> =>
                 /\ EmptyLineOnly(AddColumn(horizontal[j], 1, (j - 1) * width, width,
                                            HPrefix(j - 1)),
                                  1, (j - 1) * width, width)
                 /\ (answer.some /\ prints >= 1 /\ raised = "none") =>
                       \A i \in 1..width : fout[(j - 1) * (width + 1) + i] = "_"
        /\ \A i \in 1..width :
              vertical[i] = <<>> =>
                 /\ EmptyLineOnly(AddColumn(vertical[i], width, i - 1, height,
                                            VPrefix(i - 1)),
                                  width, i - 1, height)
                 /\ (answer.some /\ prints >= 1 /\ raised = "none") =>
                       \A j \in 1..height : fout[(j - 1) * (width + 1) + i] = "_"

C9_Witness ==
    /\ pc = "ready"
    /\ prints >= 1
    /\ answer.some
    /\ width = 3
    /\ height = 2
    /\ horizontal[2] = <<>>
    /\ horizontal[1] = <<1, 1>>
    /\ vertical[2] = <<>>

\* C10: when the first _solve raised, the instance is solved with answer None, the
\* solver is never invoked again, every later solve() returns None and every later
\* print_answer writes "No solutions!", as for a puzzle with no solution.
C10_AbortSticks ==
    aborted # "no" =>
        /\ solved
        /\ answer = None
        /\ checks = (IF aborted = "check" THEN 1 ELSE 0)
        /\ ret \in {<<>>, <<None>>}
        /\ fout = NoSolutionLines(prints)

C10_Witness ==
    /\ aborted = "build"
    /\ prints = MaxPrints
    /\ ret = <<None>>
    /\ fout = NoSolutionLines(MaxPrints)
    /\ HasSolution(horizontal, vertical)

====
